---- MODULE Spec2Model ----
(***************************************************************************)
(* Model of the Beam repository: the two parallel implementations          *)
(* (src/Beam.py, and src/main.py + src/beam_utils.py + src/section.py) of  *)
(* stress / margin-of-safety computation and of the interactive stress     *)
(* diagram.                                                                *)
(*                                                                         *)
(* Numbers.  The program computes with numpy float64.  A value is          *)
(*   [k |-> "fin", s, n, d, e]   the number  s * (n/d) * 10^e  (s = 1, -1; *)
(*                               n = 0 is the signed zero +0.0 / -0.0),    *)
(*   [k |-> "inf", s, ...]       +inf / -inf,                              *)
(*   [k |-> "nan", ...]          NaN.                                      *)
(* Finite values of this kind are kept as exact rationals: for the small   *)
(* magnitudes the model draws, rounding to float64 is monotone and never   *)
(* merges two distinct quotients, so order and equality of the rationals   *)
(* are those of the floats after one division.  Where the rounding of a    *)
(* chain of operations matters, a value is kept as the float64 itself,     *)
(*   [k |-> "f64", s, m, e]      the number  s * m * 2^e  with the 53-bit  *)
(*                               mantissa m,                               *)
(* and every operation that meets such a value rounds its result as        *)
(* float64 does.  Division by zero, inf and NaN follow IEEE 754 as numpy   *)
(* applies it (a RuntimeWarning, never an exception).                      *)
(***************************************************************************)
EXTENDS Integers, Sequences, FiniteSets, TLC

(***************************************************************************)
(* Bounds of the model.                                                    *)
(***************************************************************************)
MaxDim == 2

(***************************************************************************)
(* float64 values and numpy's element-wise arithmetic.                     *)
(***************************************************************************)
RECURSIVE GCD(_, _)
GCD(a, b) == IF b = 0 THEN a ELSE GCD(b, a % b)

RECURSIVE Pow10(_)
Pow10(k) == IF k <= 0 THEN 1 ELSE 10 * Pow10(k - 1)

NaN == [k |-> "nan", s |-> 1, n |-> 0, d |-> 1, e |-> 0]

Inf(sign) == [k |-> "inf", s |-> sign, n |-> 1, d |-> 1, e |-> 0]

Zero(sign) == [k |-> "fin", s |-> sign, n |-> 0, d |-> 1, e |-> 0]

Fin(sign, num, den, exp) ==
    IF num = 0 THEN Zero(sign)
    ELSE LET g == GCD(num, den)
         IN  [k |-> "fin", s |-> sign, n |-> num \div g, d |-> den \div g, e |-> exp]

Num(i) == IF i < 0 THEN Fin(-1, -i, 1, 0) ELSE Fin(1, i, 1, 0)

IsNaN(a) == a.k = "nan"

IsZero(a) == a.k = "fin" /\ a.n = 0

(***************************************************************************)
(* float64 bit for bit.  A natural number of any size is a sequence of     *)
(* limbs, least significant first, each below LimbBase, without leading    *)
(* zero limb (zero is the empty sequence).  A finite nonzero float64 kept  *)
(* bit for bit is [k |-> "f64", s, m, e]: the number s * m * 2^e with m a  *)
(* 53-bit mantissa, 2^52 <= m < 2^53.  Results are rounded to nearest,     *)
(* ties to even.  The exponent is not limited: the magnitudes the model    *)
(* draws neither overflow nor reach the subnormal range.                   *)
(***************************************************************************)
LimbBits == 13

LimbBase == 8192

MantissaBits == 53

RECURSIVE Pow2(_)
Pow2(k) == IF k <= 0 THEN 1 ELSE 2 * Pow2(k - 1)

Limb(x, i) == IF i >= 1 /\ i <= Len(x) THEN x[i] ELSE 0

RECURSIVE Trim(_)
Trim(x) ==
    IF Len(x) > 0 /\ x[Len(x)] = 0 THEN Trim(SubSeq(x, 1, Len(x) - 1)) ELSE x

\* The limbs of the number whose limb i is cols[i], each possibly beyond
\* LimbBase, plus the carry c into limb i.
RECURSIVE Carry(_, _, _)
Carry(cols, i, c) ==
    IF i > Len(cols) THEN (IF c = 0 THEN <<>> ELSE Carry(<<c>>, 1, 0))
    ELSE LET t == cols[i] + c
         IN  <<t % LimbBase>> \o Carry(cols, i + 1, t \div LimbBase)

BigOf(n) == Trim(Carry(<<n>>, 1, 0))

BigAdd(a, b) ==
    LET n == IF Len(a) > Len(b) THEN Len(a) ELSE Len(b)
    IN  Trim(Carry([i \in 1..n |-> Limb(a, i) + Limb(b, i)], 1, 0))

RECURSIVE SubAt(_, _, _, _)
SubAt(a, b, i, borrow) ==
    IF i > Len(a) THEN <<>>
    ELSE LET t == a[i] - Limb(b, i) - borrow
         IN  <<IF t < 0 THEN t + LimbBase ELSE t>>
                \o SubAt(a, b, i + 1, IF t < 0 THEN 1 ELSE 0)

\* a - b for a >= b.
BigSub(a, b) == Trim(SubAt(a, b, 1, 0))

RECURSIVE CmpAt(_, _, _)
CmpAt(a, b, i) ==
    IF i = 0 THEN 0
    ELSE IF Limb(a, i) > Limb(b, i) THEN 1
    ELSE IF Limb(a, i) < Limb(b, i) THEN -1
    ELSE CmpAt(a, b, i - 1)

\* 1, 0, -1 as a > b, a = b, a < b.
BigCmp(a, b) == CmpAt(a, b, IF Len(a) > Len(b) THEN Len(a) ELSE Len(b))

RECURSIVE ColSum(_, _, _, _)
ColSum(a, b, k, i) ==
    IF i > Len(a) THEN 0
    ELSE a[i] * Limb(b, k + 1 - i) + ColSum(a, b, k, i + 1)

BigMul(a, b) ==
    Trim(Carry([k \in 1..(Len(a) + Len(b)) |-> ColSum(a, b, k, 1)], 1, 0))

RECURSIVE SmallBitLen(_)
SmallBitLen(n) == IF n = 0 THEN 0 ELSE 1 + SmallBitLen(n \div 2)

BitLen(x) ==
    IF Len(x) = 0 THEN 0
    ELSE LimbBits * (Len(x) - 1) + SmallBitLen(x[Len(x)])

\* Bit i of x (bit 0 is the least significant).
Bit(x, i) == (Limb(x, (i \div LimbBits) + 1) \div Pow2(i % LimbBits)) % 2

ShiftLeft(x, sh) ==
    LET q == sh \div LimbBits
        r == sh % LimbBits
    IN  Trim(Carry([i \in 1..(Len(x) + q) |->
                      IF i <= q THEN 0 ELSE x[i - q] * Pow2(r)], 1, 0))

ShiftRight(x, sh) ==
    LET q == sh \div LimbBits
        r == sh % LimbBits
        n == IF Len(x) > q THEN Len(x) - q ELSE 0
    IN  Trim([i \in 1..n |->
                (Limb(x, i + q) \div Pow2(r))
                   + (Limb(x, i + q + 1) % Pow2(r)) * Pow2(LimbBits - r)])

\* 2 * x + b for a bit b.
DoublePlus(x, b) ==
    IF Len(x) = 0 THEN (IF b = 0 THEN <<>> ELSE <<b>>)
    ELSE Carry([i \in 1..Len(x) |-> 2 * x[i] + (IF i = 1 THEN b ELSE 0)], 1, 0)

\* One step of the long division by d: st holds the next bit i to bring
\* down, the quotient q and the remainder of the bits above it; r2 is that
\* remainder with bit i brought down, ge tells whether r2 >= d.
DivPut(d, st, r2, ge) ==
    [i |-> st.i - 1,
     q |-> DoublePlus(st.q, IF ge THEN 1 ELSE 0),
     r |-> IF ge THEN BigSub(r2, d) ELSE r2]

DivBit(d, st, r2) == DivPut(d, st, r2, BigCmp(r2, d) >= 0)

\* Long division of n by d, one bit of n at a time.
RECURSIVE DivStep(_, _, _)
DivStep(n, d, st) ==
    IF st.i < 0 THEN st
    ELSE DivStep(n, d, DivBit(d, st, DoublePlus(st.r, Bit(n, st.i))))

\* The division of n (of len bits) by d, started under the leading skip
\* bits of n, which are below d.
DivFrom(n, d, len, skip) ==
    DivStep(n, d, [i |-> len - skip - 1, q |-> <<>>, r |-> ShiftRight(n, len - skip)])

\* floor(n / d) and n mod d, for d > 0.
BigDivMod(n, d) ==
    DivFrom(n, d, BitLen(n),
            IF BitLen(n) < BitLen(d) THEN BitLen(n) ELSE BitLen(d) - 1)

\* The float64 of sign, mantissa m (53 or 54 bits) and exponent e.
Normal(sign, m, e) ==
    IF BitLen(m) > MantissaBits
    THEN [k |-> "f64", s |-> sign, m |-> ShiftRight(m, 1), e |-> e + 1]
    ELSE [k |-> "f64", s |-> sign, m |-> m, e |-> e]

\* Rounding to nearest, ties to even: m is followed by the bit half and by
\* further bits that are all zero unless rest.
RoundMantissa(sign, m, e, half, rest) ==
    Normal(sign,
           IF half /\ (rest \/ Bit(m, 0) = 1) THEN BigAdd(m, <<1>>) ELSE m, e)

\* RoundF64 for n of sh bits more than a mantissa.
RoundAt(sign, n, e, sticky, sh) ==
    IF sh <= 0
    THEN [k |-> "f64", s |-> sign, m |-> ShiftLeft(n, -sh), e |-> e + sh]
    ELSE RoundMantissa(sign, ShiftRight(n, sh), e + sh, Bit(n, sh - 1) = 1,
                       sticky \/ ShiftLeft(ShiftRight(n, sh - 1), sh - 1) # n)

\* The float64 nearest to sign * (n + f) * 2^e, where n > 0 and f is a
\* fraction in [0, 1) that is nonzero exactly when sticky (then n has more
\* than 54 bits).
RoundF64(sign, n, e, sticky) ==
    RoundAt(sign, n, e, sticky, BitLen(n) - MantissaBits)

RoundQuotient(sign, qr, e) == RoundF64(sign, qr.q, e, qr.r # <<>>)

\* QuotientF64 with n scaled by 2^sh, so that the quotient has more than 54
\* bits.
QuotientAt(sign, n, d, e, sh) ==
    RoundQuotient(sign, BigDivMod(ShiftLeft(n, sh), d), e - sh)

\* The float64 nearest to sign * (n / d) * 2^e, for n, d > 0.
QuotientF64(sign, n, d, e) ==
    QuotientAt(sign, n, d, e,
               IF MantissaBits + 2 + BitLen(d) > BitLen(n)
               THEN MantissaBits + 2 + BitLen(d) - BitLen(n) ELSE 0)

RECURSIVE BigPow10(_)
BigPow10(k) == IF k <= 0 THEN <<1>> ELSE BigMul(<<10>>, BigPow10(k - 1))

\* The float64 nearest to sign * num / den.
RatioF64(sign, num, den) ==
    IF den = <<1>> THEN RoundF64(sign, num, 0, FALSE)
    ELSE QuotientF64(sign, num, den, 0)

\* A finite nonzero value as the float64 nearest to it.
ToF64(a) ==
    IF a.k = "f64" THEN a
    ELSE RatioF64(a.s, BigMul(BigOf(a.n), BigPow10(a.e)),
                  BigMul(BigOf(a.d), BigPow10(-a.e)))

\* x / y and x * y for two finite nonzero float64.
F64Divide(x, y) == QuotientF64(x.s * y.s, x.m, y.m, x.e - y.e)

F64Multiply(x, y) == RoundF64(x.s * y.s, BigMul(x.m, y.m), x.e + y.e, FALSE)

\* The magnitude of a finite nonzero value as num * 2^e2 * 10^e10 / den.
Parts(a) ==
    IF a.k = "f64" THEN [num |-> a.m, den |-> <<1>>, e2 |-> a.e, e10 |-> 0]
    ELSE [num |-> BigOf(a.n), den |-> BigOf(a.d), e2 |-> 0, e10 |-> a.e]

\* |x| over the common denominator of x and y: the two magnitudes compare as
\* Cross(x, y) and Cross(y, x).
Cross(x, y) ==
    BigMul(ShiftLeft(BigMul(x.num, y.den), IF x.e2 > y.e2 THEN x.e2 - y.e2 ELSE 0),
           BigPow10(IF x.e10 > y.e10 THEN x.e10 - y.e10 ELSE 0))

CmpSides(side) == BigCmp(side[1], side[2])

\* -1, 0, 1 as |a| < |b|, |a| = |b|, |a| > |b| for two finite nonzero values:
\* two float64 compare by their exact values.
MagnitudeOrder(a, b) ==
    CmpSides([i \in 1..2 |-> Cross(Parts(IF i = 1 THEN a ELSE b),
                                   Parts(IF i = 1 THEN b ELSE a))])

\* -1, 0, 1: the sign of a finite value.
Sgn(a) == IF IsZero(a) THEN 0 ELSE a.s

\* -1, 0, 1 as a < b, a == b, a > b, for two finite values of which one at
\* least is kept as a float64.
F64Order(a, b) ==
    IF Sgn(a) # Sgn(b) THEN (IF Sgn(a) < Sgn(b) THEN -1 ELSE 1)
    ELSE IF Sgn(a) = 0 THEN 0
    ELSE a.s * MagnitudeOrder(a, b)

\* a / b for two float64 scalars (numpy true_divide): x/0 is +-inf, 0/0 and
\* inf/inf are nan, the sign of a zero or an infinity is the product of signs.
TrueDivide(a, b) ==
    IF IsNaN(a) \/ IsNaN(b) THEN NaN
    ELSE IF a.k = "inf" THEN (IF b.k = "inf" THEN NaN ELSE Inf(a.s * b.s))
    ELSE IF b.k = "inf" THEN Zero(a.s * b.s)
    ELSE IF IsZero(b) THEN (IF IsZero(a) THEN NaN ELSE Inf(a.s * b.s))
    ELSE IF IsZero(a) THEN Zero(a.s * b.s)
    ELSE IF a.k = "f64" \/ b.k = "f64"
         THEN F64Divide(ToF64(a), ToF64(b))
    ELSE Fin(a.s * b.s, a.n * b.d, a.d * b.n, a.e - b.e)

\* a * b for two float64 scalars (0 * inf is nan).
Multiply(a, b) ==
    IF IsNaN(a) \/ IsNaN(b) THEN NaN
    ELSE IF a.k = "inf" \/ b.k = "inf"
         THEN (IF IsZero(a) \/ IsZero(b) THEN NaN ELSE Inf(a.s * b.s))
    ELSE IF IsZero(a) \/ IsZero(b) THEN Zero(a.s * b.s)
    ELSE IF a.k = "f64" \/ b.k = "f64"
         THEN F64Multiply(ToF64(a), ToF64(b))
    ELSE Fin(a.s * b.s, a.n * b.n, a.d * b.d, a.e + b.e)

\* The signed integer numerator of a finite value over the common
\* denominator a.d * b.d * 10^(-min(a.e, b.e)).
Scaled(a, b) ==
    LET m == IF a.e < b.e THEN a.e ELSE b.e
    IN  a.s * a.n * b.d * Pow10(a.e - m)

\* a < b  (False whenever a NaN is involved; -0.0 < +0.0 is False).
Less(a, b) ==
    IF IsNaN(a) \/ IsNaN(b) THEN FALSE
    ELSE IF a.k = "inf" THEN a.s = -1 /\ ~(b.k = "inf" /\ b.s = -1)
    ELSE IF b.k = "inf" THEN b.s = 1
    ELSE IF a.k = "f64" \/ b.k = "f64" THEN F64Order(a, b) < 0
    ELSE Scaled(a, b) < Scaled(b, a)

\* a == b  (False whenever a NaN is involved; -0.0 == +0.0 is True).
Equal(a, b) ==
    IF IsNaN(a) \/ IsNaN(b) THEN FALSE
    ELSE IF a.k = "inf" \/ b.k = "inf" THEN a.k = b.k /\ a.s = b.s
    ELSE IF a.k = "f64" \/ b.k = "f64" THEN F64Order(a, b) = 0
    ELSE Scaled(a, b) = Scaled(b, a)

(***************************************************************************)
(* numpy arrays: a 2-D array is [shape |-> <<rows, cols>>, data |-> rows], *)
(* a 1-D array or a Python list is a sequence.  Python indices are         *)
(* 0-based; the sequences here are 1-based, so x[i] of the code is         *)
(* x[i + 1] here.                                                          *)
(***************************************************************************)
Array2(rows, cols, f(_, _)) ==
    [shape |-> <<rows, cols>>,
     data  |-> [i \in 1..rows |-> [j \in 1..cols |-> f(i, j)]]]

Size(m) == m.shape[1] * m.shape[2]

\* The elements in C (row-major) order: m.ravel().
Ravel(m) ==
    [q \in 1..Size(m) |->
        m.data[((q - 1) \div m.shape[2]) + 1][((q - 1) % m.shape[2]) + 1]]

Ok(v) == [err |-> "none", val |-> v]

Raise(exc) == [err |-> exc, val |-> <<>>]

RECURSIVE FoldMin(_, _, _)
FoldMin(xs, q, best) ==
    IF q > Len(xs) THEN best
    ELSE FoldMin(xs, q + 1, IF Less(xs[q], best) THEN xs[q] ELSE best)

\* np.min without numpy's check for a zero-size array.
NpMin_unchecked(m) ==
    LET xs == Ravel(m)
    IN  IF Len(xs) > 0 /\ (\A q \in 1..Len(xs) : ~IsNaN(xs[q]))
        THEN Ok(FoldMin(xs, 2, xs[1]))
        ELSE Ok(NaN)

\* np.min(m): ValueError on a zero-size array; nan as soon as one element
\* is nan; the smallest element otherwise.
NpMin(m) ==
    LET xs == Ravel(m)
    IN  IF Size(m) = 0 THEN Raise("ValueError")
        ELSE IF \E q \in 1..Len(xs) : IsNaN(xs[q]) THEN Ok(NaN)
        ELSE Ok(FoldMin(xs, 2, xs[1]))

\* np.argwhere(m == v): the 0-based (row, column) pairs of the elements
\* equal to v, in row-major order.
ArgWhereEqual(m, v) ==
    LET idx == [q \in 1..Size(m) |->
                   <<(q - 1) \div m.shape[2], (q - 1) % m.shape[2]>>]
        Hit(p) == Equal(m.data[p[1] + 1][p[2] + 1], v)
    IN  SelectSeq(idx, Hit)

\* np.argmin(m): ValueError on a zero-size array; the 0-based flattened
\* index of the first nan if there is one, of the first smallest element
\* otherwise.
NpArgMin(m) ==
    LET xs == Ravel(m)
        nans == {q \in 1..Len(xs) : IsNaN(xs[q])}
        mins == {q \in 1..Len(xs) : \A p \in 1..Len(xs) : ~Less(xs[p], xs[q])}
        first(S) == CHOOSE q \in S : \A p \in S : q <= p
    IN  IF Size(m) = 0 THEN Raise("ValueError")
        ELSE Ok((IF nans # {} THEN first(nans) ELSE first(mins)) - 1)

(***************************************************************************)
(* Broadcasting of a 2-D array against a 1-D array, and of two 1-D arrays  *)
(* (numpy's rule on the trailing axis: equal lengths, or one of them 1).   *)
(***************************************************************************)
Broadcast21(m, v, f(_, _)) ==
    LET r == m.shape[1]
        c == m.shape[2]
        k == Len(v)
        at(row, j) == IF Len(row) = 1 THEN row[1] ELSE row[j]
        cell(i, j) == f(at(m.data[i], j), at(v, j))
    IN  IF k = c \/ k = 1 THEN Ok(Array2(r, c, cell))
        ELSE IF c = 1 THEN Ok(Array2(r, k, cell))
        ELSE Raise("ValueError")

Broadcast11(u, v, f(_, _)) ==
    LET at(w, j) == IF Len(w) = 1 THEN w[1] ELSE w[j]
        k == IF Len(u) = 1 THEN Len(v) ELSE Len(u)
    IN  IF Len(u) = Len(v) \/ Len(u) = 1 \/ Len(v) = 1
        THEN Ok([j \in 1..k |-> f(at(u, j), at(v, j))])
        ELSE Raise("ValueError")

\* array (op) scalar and scalar (op) array, element-wise.
MapArray(m, f(_)) ==
    LET cell(i, j) == f(m.data[i][j])
    IN  Array2(m.shape[1], m.shape[2], cell)

\* The literal 1e6 of Beam.calculate_stresses.
MegaPascal == Fin(1, 1, 1, 6)

(***************************************************************************)
(* src/Beam.py: class Beam.                                                *)
(***************************************************************************)
\* Beam.__init__: stores its five arguments as given.
Beam(section_names, X, A, loads, LC_names) ==
    [section_names |-> section_names, X |-> X, A |-> A,
     loads |-> loads, LC_names |-> LC_names]

\* calculate_stresses with the operands of the division swapped.
calculate_stresses_swapped(self) ==
    LET Under(l, a) == TrueDivide(a, l)
        q == Broadcast21(self.loads, self.A, Under)
        PerMega(x) == TrueDivide(x, MegaPascal)
    IN  IF q.err # "none" THEN q ELSE Ok(MapArray(q.val, PerMega))

\* calculate_stresses without the division by 1e6.
calculate_stresses_unscaled(self) ==
    Broadcast21(self.loads, self.A, TrueDivide)

\* return (self.loads / self.A) / 1e6
calculate_stresses(self) ==
    LET q == Broadcast21(self.loads, self.A, TrueDivide)
        PerMega(x) == TrueDivide(x, MegaPascal)
    IN  IF q.err # "none" THEN q ELSE Ok(MapArray(q.val, PerMega))

\* calculate_ms with the other margin convention, stresses / sigma_cr.
calculate_ms_inverted(self, sigma_cr, stress) ==
    LET Per(x) == TrueDivide(x, sigma_cr)
    IN  Ok(MapArray(stress, Per))

\* return sigma_cr / stresses
calculate_ms(self, sigma_cr, stress) ==
    LET Over(x) == TrueDivide(sigma_cr, x)
    IN  Ok(MapArray(stress, Over))

\* find_min_ms keeping only the first index pair (as np.argmin would).
find_min_ms_first_only(self, margins) ==
    LET lo == NpMin(margins)
        indices == ArgWhereEqual(margins, lo.val)
    IN  IF lo.err # "none" THEN lo
        ELSE IF Len(indices) = 0 THEN Ok(<<>>)
        ELSE Ok(<< <<lo.val,
                     self.section_names[indices[1][2] + 1],
                     self.LC_names[indices[1][1] + 1]>> >>)

\* min_value = np.min(ms); indices = np.argwhere(ms == min_value); one
\* (min_value, section name, load-case name) tuple per index pair.
find_min_ms(self, margins) ==
    LET lo == NpMin(margins)
        indices == ArgWhereEqual(margins, lo.val)
        InRange(p) == /\ p[2] + 1 <= Len(self.section_names)
                      /\ p[1] + 1 <= Len(self.LC_names)
    IN  IF lo.err # "none" THEN lo
        ELSE IF \E q \in 1..Len(indices) : ~InRange(indices[q])
             THEN Raise("IndexError")
        ELSE Ok([q \in 1..Len(indices) |->
                    <<lo.val,
                      self.section_names[indices[q][2] + 1],
                      self.LC_names[indices[q][1] + 1]>>])

(***************************************************************************)
(* src/section.py: class Section;  src/beam_utils.py: class Beam.          *)
(***************************************************************************)
\* Section.__init__: stores its six arguments as given.
Section(CS, X, E, A, loads, LC) ==
    [CS |-> CS, X |-> X, E |-> E, A |-> A, loads |-> loads, LC |-> LC]

\* beam_utils.Beam.__init__: stores the Section.
BeamOfSection(section) == [section |-> section]

\* return loads / (E * A)
calculate_sigma(self) ==
    LET EA == Broadcast11(self.section.E, self.section.A, Multiply)
    IN  IF EA.err # "none" THEN EA
        ELSE Broadcast21(self.section.loads, EA.val, TrueDivide)

\* return sigma / sigma_cr
calculate_MS(self, sigma, sigma_cr) ==
    LET Per(x) == TrueDivide(x, sigma_cr)
    IN  Ok(MapArray(sigma, Per))

\* find_min_MS with the flattened index split by the number of rows
\* (MS.shape[0]) instead of the number of columns.
find_min_MS_split_by_rows(self, MS) ==
    LET MSmin == NpMin(MS)
        MSmin_index == NpArgMin(MS)
        LC_index == MSmin_index.val \div MS.shape[1]
        CS_index == MSmin_index.val % MS.shape[1]
    IN  IF MSmin.err # "none" THEN MSmin
        ELSE IF MSmin_index.err # "none" THEN MSmin_index
        ELSE IF CS_index + 1 > Len(self.section.X) THEN Raise("IndexError")
        ELSE IF LC_index + 1 > Len(self.section.LC) THEN Raise("IndexError")
        ELSE Ok(<<MSmin.val, self.section.X[CS_index + 1],
                  self.section.LC[LC_index + 1]>>)

\* MSmin = np.min(MS); MSmin_index = np.argmin(MS); row = index // columns,
\* column = index % columns; returns (MSmin, X[column], LC[row]).
find_min_MS(self, MS) ==
    LET MSmin == NpMin(MS)
        MSmin_index == NpArgMin(MS)
        LC_index == MSmin_index.val \div MS.shape[2]
        CS_index == MSmin_index.val % MS.shape[2]
    IN  IF MSmin.err # "none" THEN MSmin
        ELSE IF MSmin_index.err # "none" THEN MSmin_index
        ELSE IF CS_index + 1 > Len(self.section.X) THEN Raise("IndexError")
        ELSE IF LC_index + 1 > Len(self.section.LC) THEN Raise("IndexError")
        ELSE Ok(<<MSmin.val, self.section.X[CS_index + 1],
                  self.section.LC[LC_index + 1]>>)

(***************************************************************************)
(* State.                                                                  *)
(*   prog     which script runs, "Beam.py" or "main.py" (when one method   *)
(*            is applied to one object: which module's Beam class)         *)
(*   pc       the position in the script                                   *)
(*   df       the sheet pd.read_excel returned                             *)
(*   args     the values extracted from the sheet (constructor arguments)  *)
(*   beam     the Beam object, None before construction                    *)
(*   stresses, ms   the stress and margin matrices, None before computed   *)
(*   exc      the exception that ended the script, "none" otherwise        *)
(*   fig      the figure: whether created, and the events connected        *)
(*   lines, vertical_lines, visibility, legend_items, tooltip, annotations, *)
(*   summary, legend, axhline      the artists and closure variables of    *)
(*            plot_stresses / plot_sigma                                   *)
(*   pointer  where the last motion event was: "inside" ax_legend,         *)
(*            "outside" it, "none" before the first motion event           *)
(*   last_pick, before   the last legend click (<<>> before the first) and *)
(*            the visibility of the curves before that click               *)
(*   call, ret   the one method applied to the object with its arguments,  *)
(*            as a caller or a test would (fn = "none" in the scripts),    *)
(*            and what it returned or raised                               *)
(***************************************************************************)
VARIABLES prog, pc, df, args, beam, stresses, ms, exc, fig, lines,
          vertical_lines, visibility, legend_items, tooltip, annotations, summary,
          legend, axhline, pointer, last_pick, before, call, ret

vars == <<prog, pc, df, args, beam, stresses, ms, exc, fig, lines,
          vertical_lines, visibility, legend_items, tooltip, annotations, summary,
          legend, axhline, pointer, last_pick, before, call, ret>>

data_vars == <<df, args, beam, stresses, ms>>

view_vars == <<fig, lines, vertical_lines, visibility, legend_items, tooltip,
               annotations, summary, legend, axhline, pointer, last_pick, before>>

\* Python's None where an object is expected (a record, so that it compares
\* with the records that replace it).
None == [none |-> TRUE]

\* An artist's alpha before any set_alpha: get_alpha() is None.
NoAlpha == "None"

(***************************************************************************)
(* The sheet.  df.col0[r + 1] tells whether the cell of row r in column 0  *)
(* contains the text 'Расчетный случай'; df.data[r + 1] is row r from      *)
(* column 2 on.  Row 0 holds the section names, row 1 X, row 2 E, row 3 A, *)
(* rows 4.. the loads.                                                     *)
(***************************************************************************)
DataStart == 2

SliceEnd == 8

FirstLoadRow == 4

SectionLabels == <<"A-A", "B-B", "C-C", "D-D", "E-E", "F-F">>

LoadCells == {Num(0), Num(8)}

AreaCells == {Num(0), Num(2), Num(4)}

\* A sheet of nrows rows and ncols data columns whose last marker row is
\* hi (-1: no marker row), with area a[j] in column j and load l[i] in
\* every column of load row i.
Sheet(nrows, ncols, hi, a, l) ==
    [col0 |-> [r \in 1..nrows |->
                  (r - 1 <= hi) /\ (r - 1 >= FirstLoadRow \/ r - 1 = hi)],
     data |-> [r \in 1..nrows |->
                  CASE r = 1 -> SubSeq(SectionLabels, 1, ncols)
                    [] r = 2 -> [j \in 1..ncols |-> Num(j - 1)]
                    [] r = 3 -> [j \in 1..ncols |-> Num(2)]
                    [] r = 4 -> a
                    [] OTHER -> [j \in 1..ncols |-> l[r - FirstLoadRow]]]]

Sheets ==
    UNION {
        {Sheet(nrows, ncols, hi, a, l) :
            hi \in -1..(nrows - 1),
            a \in [1..ncols -> AreaCells],
            l \in [1..(IF nrows > FirstLoadRow THEN nrows - FirstLoadRow ELSE 0)
                     -> LoadCells]} :
        nrows \in (FirstLoadRow - 1)..(FirstLoadRow + MaxDim),
        ncols \in 1..MaxDim}

\* df.iloc[r, 2:8]: the cells of row r in columns 2..7 (fewer when the sheet
\* is narrower).
ILocRow(d, r) ==
    LET row == d.data[r + 1]
        w == SliceEnd - DataStart
    IN  SubSeq(row, 1, IF Len(row) < w THEN Len(row) ELSE w)

\* column_a[column_a.str.contains('...', na=False)].index
FilteredIndices(d) == {r \in 0..(Len(d.col0) - 1) : d.col0[r + 1]}

\* filtered_indices[-1] of a filtered_indices that is not empty.
LastIndex(d) ==
    CHOOSE r \in FilteredIndices(d) : \A q \in FilteredIndices(d) : q <= r

\* df.iloc[4:(last_index + 1), 2:8].values: the slice ends at the last row
\* of the sheet when it asks for more.
ILocLoads(d, last_index) ==
    LET stop == IF last_index + 1 < Len(d.data) THEN last_index + 1 ELSE Len(d.data)
        nr == IF stop > FirstLoadRow THEN stop - FirstLoadRow ELSE 0
        nc == Len(ILocRow(d, 0))
        cell(i, j) == ILocRow(d, FirstLoadRow + i - 1)[j]
    IN  Array2(nr, nc, cell)

\* [f'LC{i + 1}' for i in range(last_index)]
LCNames(last_index) == [i \in 1..last_index |-> "LC" \o ToString(i)]

\* An extraction that reads a sheet without marker row as one without load
\* rows instead of failing.
Extract_tolerant(d) ==
    LET last_index == IF FilteredIndices(d) = {} THEN FirstLoadRow - 1
                      ELSE LastIndex(d)
    IN  IF Len(d.data) < FirstLoadRow THEN Raise("IndexError")
        ELSE Ok([names |-> ILocRow(d, 0), X |-> ILocRow(d, 1),
                 E |-> ILocRow(d, 2), A |-> ILocRow(d, 3),
                 loads |-> ILocLoads(d, last_index),
                 LC |-> LCNames(last_index)])

\* Beam.py lines 218-231 and main.py lines 15-28: the values read from the
\* sheet.  A row index past the sheet raises IndexError; last_index + 1 with
\* last_index = None raises TypeError.
Extract(d) ==
    LET last_index == LastIndex(d)
    IN  IF Len(d.data) < FirstLoadRow THEN Raise("IndexError")
        ELSE IF FilteredIndices(d) = {} THEN Raise("TypeError")
        ELSE Ok([names |-> ILocRow(d, 0), X |-> ILocRow(d, 1),
                 E |-> ILocRow(d, 2), A |-> ILocRow(d, 3),
                 loads |-> ILocLoads(d, last_index),
                 LC |-> LCNames(last_index)])

\* sigma_cr = 500 (Beam.py), sigma_cr = 1.5 (main.py).
SigmaCr(p) == IF p = "Beam.py" THEN Num(500) ELSE Fin(1, 3, 2, 0)

\* tooltip = None
NoTooltip == 0

\* The scripts apply no single method.
NoCall == [fn |-> "none"]

\* No figure yet: nothing created, no handler connected.
NoFigure == [created |-> FALSE, connected |-> {}]

NoView ==
    /\ fig = NoFigure /\ lines = <<>> /\ vertical_lines = <<>> /\ visibility = <<>>
    /\ legend_items = <<>> /\ tooltip = NoTooltip /\ annotations = <<>> /\ summary = None
    /\ legend = <<>> /\ axhline = FALSE /\ pointer = "none" /\ last_pick = <<>>
    /\ before = <<>>

Init ==
    /\ prog \in {"Beam.py", "main.py"}
    /\ pc = "extract"
    /\ df \in Sheets
    /\ args = None /\ beam = None /\ stresses = None /\ ms = None
    /\ exc = "none"
    /\ NoView
    /\ call = NoCall /\ ret = None

\* An uncaught exception ends the script.
Fail(e) == pc' = "failed" /\ exc' = e

\* The extraction of the values from the sheet.
ExtractData ==
    /\ pc = "extract"
    /\ LET r == Extract(df)
       IN  IF r.err # "none"
           THEN Fail(r.err) /\ UNCHANGED args
           ELSE pc' = "construct" /\ args' = r.val /\ UNCHANGED exc
    /\ UNCHANGED <<prog, df, beam, stresses, ms, view_vars, call, ret>>

\* beam = Beam(section_names, X, A, loads, LC_names)        (Beam.py)
\* section_data = Section(CS, X, E, A, loads, LC); beam = Beam(section_data)
Construct ==
    /\ pc = "construct"
    /\ beam' = IF prog = "main.py"
               THEN BeamOfSection(Section(args.names, args.X, args.E, args.A,
                                          args.loads, args.LC))
               ELSE Beam(args.names, args.X, args.A, args.loads, args.LC)
    /\ pc' = IF call.fn # "none" THEN "call" ELSE "stress"
    /\ UNCHANGED <<prog, df, args, stresses, ms, exc, view_vars, call, ret>>

\* stresses = beam.calculate_stresses()  /  sigma = beam.calculate_sigma()
ComputeStress ==
    /\ pc = "stress"
    /\ LET r == IF prog = "main.py" THEN calculate_sigma(beam)
                ELSE calculate_stresses(beam)
       IN  IF r.err # "none"
           THEN Fail(r.err) /\ UNCHANGED stresses
           ELSE pc' = "margin" /\ stresses' = r.val /\ UNCHANGED exc
    /\ UNCHANGED <<prog, df, args, beam, ms, view_vars, call, ret>>

\* ms = beam.calculate_ms(sigma_cr, stresses)  /  MS = beam.calculate_MS(...)
ComputeMargin ==
    /\ pc = "margin"
    /\ LET r == IF prog = "main.py" THEN calculate_MS(beam, stresses, SigmaCr(prog))
                ELSE calculate_ms(beam, SigmaCr(prog), stresses)
       IN  ms' = r.val
    /\ pc' = "plot"
    /\ UNCHANGED <<prog, df, args, beam, stresses, exc, view_vars, call, ret>>

(***************************************************************************)
(* src/Beam.py: Beam.plot_stresses.                                        *)
(*   lines[i]             whether the curve of load case i is visible      *)
(*   vertical_lines[i][t] whether its t-th vertical line is visible        *)
(*   visibility[i]        the closure's flag of load case i                *)
(*   legend_items[i]      [patch_alpha, text_alpha, label]: the alpha of   *)
(*                        the swatch and of the label (None: never set,    *)
(*                        drawn opaque)                                    *)
(*   annotations          the visible flag of every annotation on_motion   *)
(*                        has created, in creation order                   *)
(*   tooltip              the index in annotations of the annotation the   *)
(*                        closure variable refers to, 0 for None           *)
(*   axhline              whether the critical-stress line is visible      *)
(*   summary              the content of the minimum-margin text box       *)
(***************************************************************************)
MaxAnnotations == 2

\* alpha = 0.2 if not visibility[i] else 1.0
AlphaDim == "0.2"

AlphaFull == "1.0"

\* The alpha an artist is drawn with: an alpha of None is opaque.
EffectiveAlpha(a) == IF a = NoAlpha THEN AlphaFull ELSE a

CeilDiv(p, q) == -((-p) \div q)

\* len(np.arange(x_min, x_max, 0.2)) = ceil((x_max - x_min) / 0.2), for
\* finite x_min, x_max written without a power of ten.
NpArangeLen(x_min, x_max) ==
    LET diff == x_max.s * x_max.n * x_min.d - x_min.s * x_min.n * x_max.d
        len == CeilDiv(5 * diff, x_min.d * x_max.d)
    IN  IF len < 0 THEN 0 ELSE len

RECURSIVE FoldMax(_, _, _)
FoldMax(xs, q, best) ==
    IF q > Len(xs) THEN best
    ELSE FoldMax(xs, q + 1, IF Less(best, xs[q]) THEN xs[q] ELSE best)

\* fig = plt.figure(...); ax = fig.add_axes(...)
PlotFigure ==
    /\ pc = "plot" /\ prog = "Beam.py"
    /\ fig' = [created |-> TRUE, connected |-> {}]
    /\ pc' = "curves"
    /\ UNCHANGED <<prog, data_vars, exc, lines, vertical_lines, visibility,
                   legend_items, tooltip, annotations, summary, legend, axhline,
                   pointer, last_pick, before, call, ret>>

\* Lines 71-146: one step curve per row of stresses with its vertical lines
\* every 0.2 from min(X) to max(X), the critical-stress line, the legend
\* axes with one swatch and one pickable label per curve; visibility is all
\* True and tooltip is None.
PlotCurves ==
    /\ pc = "curves" /\ prog = "Beam.py"
    /\ LET n == stresses.shape[1]
           ticks == NpArangeLen(FoldMin(beam.X, 2, beam.X[1]),
                                FoldMax(beam.X, 2, beam.X[1]))
       IN  IF n > Len(beam.LC_names)
           THEN Fail("IndexError")
                /\ UNCHANGED <<lines, vertical_lines, visibility, legend_items,
                               axhline>>
           ELSE IF n > 0 /\ Len(beam.X) = 0
           THEN Fail("ValueError")
                /\ UNCHANGED <<lines, vertical_lines, visibility, legend_items,
                               axhline>>
           ELSE /\ lines' = [i \in 1..n |-> TRUE]
                /\ vertical_lines' = [i \in 1..n |-> [t \in 1..ticks |-> TRUE]]
                /\ axhline' = TRUE
                /\ visibility' = [i \in 1..n |-> TRUE]
                /\ legend_items' = [i \in 1..n |->
                       [patch_alpha |-> NoAlpha, text_alpha |-> NoAlpha,
                        label |-> beam.LC_names[i]]]
                /\ pc' = "connect"
                /\ UNCHANGED exc
    /\ UNCHANGED <<prog, data_vars, fig, tooltip, annotations, summary, legend,
                   pointer, last_pick, before, call, ret>>

\* fig.canvas.mpl_connect('motion_notify_event', on_motion)
\* fig.canvas.mpl_connect('pick_event', on_legend_click)
ConnectHandlers ==
    /\ pc = "connect" /\ prog = "Beam.py"
    /\ fig' = [fig EXCEPT !.connected = {"motion_notify_event", "pick_event"}]
    /\ pc' = "summary"
    /\ UNCHANGED <<prog, data_vars, exc, lines, vertical_lines, visibility,
                   legend_items, tooltip, annotations, summary, legend, axhline,
                   pointer, last_pick, before, call, ret>>

\* Lines 195-200: min_results = self.find_min_ms(sigma_cr / stresses);
\* min_value = min_results[0][0]; one text line per result.
MinSummary(self, stress, sigma_cr) ==
    LET Over(x) == TrueDivide(sigma_cr, x)
        min_results == find_min_ms(self, MapArray(stress, Over))
    IN  IF min_results.err # "none" THEN min_results
        ELSE IF Len(min_results.val) = 0 THEN Raise("IndexError")
        ELSE Ok([min_value |-> min_results.val[1][1],
                 cases |-> [q \in 1..Len(min_results.val) |->
                               <<min_results.val[q][2], min_results.val[q][3]>>]])

\* Lines 190-210: the text box with the minimum margin.
PlotSummary ==
    /\ pc = "summary" /\ prog = "Beam.py"
    /\ LET r == MinSummary(beam, stresses, SigmaCr(prog))
       IN  IF r.err # "none"
           THEN Fail(r.err) /\ UNCHANGED summary
           ELSE summary' = r.val /\ pc' = "show" /\ UNCHANGED exc
    /\ UNCHANGED <<prog, data_vars, fig, lines, vertical_lines, visibility,
                   legend_items, tooltip, annotations, legend, axhline, pointer,
                   last_pick, before, call, ret>>

\* The part of the view the two handlers of plot_stresses read and write.
ViewState ==
    [visibility |-> visibility, lines |-> lines,
     vertical_lines |-> vertical_lines, legend_items |-> legend_items,
     tooltip |-> tooltip, annotations |-> annotations, summary |-> summary,
     axhline |-> axhline]

\* on_motion without its else branch: the annotation is never hidden.
on_motion_never_hides(st, inside) ==
    IF inside /\ (st.tooltip = NoTooltip \/ ~st.annotations[st.tooltip])
    THEN [st EXCEPT !.annotations = Append(@, TRUE),
                    !.tooltip = Len(st.annotations) + 1]
    ELSE st

\* on_motion creating an annotation on every event inside the legend axes,
\* whether or not the tracked one is visible.
on_motion_always_creates(st, inside) ==
    IF inside
    THEN [st EXCEPT !.annotations = Append(@, TRUE),
                    !.tooltip = Len(st.annotations) + 1]
    ELSE IF st.tooltip # NoTooltip /\ st.annotations[st.tooltip]
         THEN [st EXCEPT !.annotations[st.tooltip] = FALSE]
         ELSE st

\* on_motion(event), with inside = (event.inaxes == ax_legend).
on_motion(st, inside) ==
    IF inside
    THEN IF st.tooltip = NoTooltip \/ ~st.annotations[st.tooltip]
         THEN [st EXCEPT !.annotations = Append(@, TRUE),
                         !.tooltip = Len(st.annotations) + 1]
         ELSE st
    ELSE IF st.tooltip # NoTooltip /\ st.annotations[st.tooltip]
         THEN [st EXCEPT !.annotations[st.tooltip] = FALSE]
         ELSE st

\* Toggle without the loop over vertical_lines[i].
Toggle_without_vertical_lines(st, i) ==
    LET v == ~st.visibility[i]
        alpha == IF ~v THEN AlphaDim ELSE AlphaFull
    IN  [st EXCEPT !.visibility[i] = v,
                   !.lines[i] = v,
                   !.legend_items[i].patch_alpha = alpha,
                   !.legend_items[i].text_alpha = alpha]

\* The body of on_legend_click's if: the toggle of load case i.
Toggle(st, i) ==
    LET v == ~st.visibility[i]
        alpha == IF ~v THEN AlphaDim ELSE AlphaFull
    IN  [st EXCEPT !.visibility[i] = v,
                   !.lines[i] = v,
                   !.vertical_lines[i] = [t \in DOMAIN @ |-> v],
                   !.legend_items[i].patch_alpha = alpha,
                   !.legend_items[i].text_alpha = alpha]

\* on_legend_click(event), with artist = the index of the legend label that
\* event.artist is: the first item whose text is the artist is toggled.
on_legend_click(st, artist) ==
    LET hits == {i \in 1..Len(st.legend_items) : i = artist}
    IN  IF hits = {} THEN st
        ELSE Toggle(st, CHOOSE i \in hits : \A j \in hits : i <= j)

\* A radio-style legend: the clicked load case is shown, every other hidden.
click_exclusive(st, artist) ==
    [st EXCEPT !.visibility = [i \in DOMAIN @ |-> i = artist],
               !.lines = [i \in DOMAIN @ |-> i = artist],
               !.vertical_lines =
                   [i \in DOMAIN @ |-> [t \in DOMAIN @[i] |-> i = artist]],
               !.legend_items =
                   [i \in DOMAIN @ |->
                       [@[i] EXCEPT
                          !.patch_alpha = IF i = artist THEN AlphaFull ELSE AlphaDim,
                          !.text_alpha = IF i = artist THEN AlphaFull ELSE AlphaDim]]]

\* A click that recomputes the summary over the visible load cases only.
click_filtering_summary(st, artist) ==
    LET t == on_legend_click(st, artist)
        Shown(c) == \E i \in 1..Len(t.legend_items) :
                       t.legend_items[i].label = c[2] /\ t.visibility[i]
    IN  [t EXCEPT !.summary.cases = SelectSeq(@, Shown)]

\* A click handler that also hides the help annotation.
click_hiding_tooltip(st, artist) ==
    LET t == on_legend_click(st, artist)
    IN  [t EXCEPT !.annotations = [k \in DOMAIN @ |-> FALSE]]

\* What pick_event runs: on_legend_click.
PickHandler(st, artist) == on_legend_click(st, artist)

SetViewState(st) ==
    /\ visibility' = st.visibility
    /\ lines' = st.lines
    /\ vertical_lines' = st.vertical_lines
    /\ legend_items' = st.legend_items
    /\ tooltip' = st.tooltip
    /\ annotations' = st.annotations
    /\ summary' = st.summary
    /\ axhline' = st.axhline

\* A motion_notify_event delivered by the event loop of plt.show().
MotionEvent(inside) ==
    /\ pc = "show" /\ prog = "Beam.py"
    /\ "motion_notify_event" \in fig.connected
    /\ Len(on_motion(ViewState, inside).annotations) <= MaxAnnotations
    /\ SetViewState(on_motion(ViewState, inside))
    /\ pointer' = IF inside THEN "inside" ELSE "outside"
    /\ UNCHANGED <<prog, pc, data_vars, exc, fig, legend, last_pick, before,
                   call, ret>>

\* A pick_event on the legend label of load case artist.
PickEvent(artist) ==
    /\ pc = "show" /\ prog = "Beam.py"
    /\ "pick_event" \in fig.connected
    /\ SetViewState(PickHandler(ViewState, artist))
    /\ last_pick' = <<artist>>
    /\ before' = visibility
    /\ UNCHANGED <<prog, pc, data_vars, exc, fig, legend, pointer, call, ret>>

\* The user closes the window: plt.show() returns and the script ends.
Close ==
    /\ pc = "show"
    /\ pc' = "closed"
    /\ UNCHANGED <<prog, data_vars, exc, view_vars, call, ret>>

(***************************************************************************)
(* src/beam_utils.py: Beam.plot_sigma.                                     *)
(*   summary      (MSmin, section_X, LC_name), found before the figure is  *)
(*                created and shown by the text annotation                 *)
(*   lines[i]     whether the curve of load case i is visible              *)
(*   legend[k]    [label, color, handle_color, handle_alpha] of the k-th   *)
(*                legend entry: one per curve, then the critical line's    *)
(***************************************************************************)
\* The label of ax.axhline: f'Критическое напряжение ({sigma_cr} МПа)'.
CriticalLabel == "critical"

\* MSmin, section_X, LC_name = self.find_min_MS(MS)
SigmaSummary(self, MS) ==
    LET r == find_min_MS(self, MS)
    IN  IF r.err # "none" THEN r
        ELSE Ok([MSmin |-> r.val[1], section_X |-> r.val[2],
                 LC_name |-> r.val[3]])

\* Line 74: the minimum margin is found first, before any figure exists.
PlotSigmaFindMin ==
    /\ pc = "plot" /\ prog = "main.py"
    /\ LET r == SigmaSummary(beam, ms)
       IN  IF r.err # "none"
           THEN Fail(r.err) /\ UNCHANGED summary
           ELSE summary' = r.val /\ pc' = "curves" /\ UNCHANGED exc
    /\ UNCHANGED <<prog, data_vars, fig, lines, vertical_lines, visibility,
                   legend_items, tooltip, annotations, legend, axhline, pointer,
                   last_pick, before, call, ret>>

\* Lines 77-107: the figure, one curve per row of stresses, the critical
\* line, the legend (an entry per labelled artist) and the text annotation.
PlotSigmaCurves ==
    /\ pc = "curves" /\ prog = "main.py"
    /\ fig' = [created |-> TRUE, connected |-> {}]
    /\ LET n == stresses.shape[1]
       IN  IF n > Len(beam.section.LC)
           THEN Fail("IndexError") /\ UNCHANGED <<lines, axhline, legend>>
           ELSE /\ lines' = [i \in 1..n |-> TRUE]
                /\ axhline' = TRUE
                /\ legend' = [k \in 1..(n + 1) |->
                       [label |-> IF k <= n THEN beam.section.LC[k]
                                  ELSE CriticalLabel,
                        color |-> "black", handle_color |-> "own",
                        handle_alpha |-> NoAlpha]]
                /\ pc' = "connect"
                /\ UNCHANGED exc
    /\ UNCHANGED <<prog, data_vars, vertical_lines, visibility, legend_items,
                   tooltip, annotations, summary, pointer, last_pick, before,
                   call, ret>>

\* fig.canvas.mpl_connect('button_press_event', on_legend_click)
ConnectPress ==
    /\ pc = "connect" /\ prog = "main.py"
    /\ fig' = [fig EXCEPT !.connected = {"button_press_event"}]
    /\ pc' = "show"
    /\ UNCHANGED <<prog, data_vars, exc, lines, vertical_lines, visibility,
                   legend_items, tooltip, annotations, summary, legend, axhline,
                   pointer, last_pick, before, call, ret>>

\* The part of the view the handler of plot_sigma can reach.
SigmaViewState ==
    [lines |-> lines, legend |-> legend, summary |-> summary, axhline |-> axhline]

\* on_press without the recolouring of the legend text and handle.
on_press_without_dimming(st, where) ==
    IF where[1] # "text" THEN st
    ELSE LET label == st.legend[where[2]].label
             hits == {i \in 1..Len(st.lines) : st.legend[i].label = label}
             i == CHOOSE h \in hits : \A j \in hits : h <= j
         IN  IF hits = {} THEN st
             ELSE [st EXCEPT !.lines[i] = ~st.lines[i]]

\* on_press treating the critical line as one more togglable curve: a press
\* on a legend text that labels no curve hides or shows the critical line.
on_press_toggling_reference(st, where) ==
    IF where[1] # "text" THEN st
    ELSE LET label == st.legend[where[2]].label
             hits == {i \in 1..Len(st.lines) : st.legend[i].label = label}
             i == CHOOSE h \in hits : \A j \in hits : h <= j
             visible == ~st.lines[i]
         IN  IF hits = {}
             THEN [st EXCEPT
                     !.axhline = ~st.axhline,
                     !.legend[where[2]].color = IF st.axhline THEN "gray" ELSE "black"]
             ELSE [st EXCEPT
                     !.lines[i] = visible,
                     !.legend[i].color = IF ~visible THEN "gray" ELSE "black",
                     !.legend[i].handle_color = IF ~visible THEN "gray" ELSE "own",
                     !.legend[i].handle_alpha =
                         IF ~visible THEN AlphaDim ELSE AlphaFull]

\* plot_sigma's on_legend_click(event), with where = where (event.x, event.y)
\* is: <<"outside">> the legend, inside it on no text (<<"blank">>), or on
\* the k-th legend text (<<"text", k>>).
on_press(st, where) ==
    IF where[1] # "text" THEN st
    ELSE LET label == st.legend[where[2]].label
             hits == {i \in 1..Len(st.lines) : st.legend[i].label = label}
             i == CHOOSE h \in hits : \A j \in hits : h <= j
             visible == ~st.lines[i]
         IN  IF hits = {} THEN st
             ELSE [st EXCEPT
                     !.lines[i] = visible,
                     !.legend[i].color = IF ~visible THEN "gray" ELSE "black",
                     !.legend[i].handle_color = IF ~visible THEN "gray" ELSE "own",
                     !.legend[i].handle_alpha =
                         IF ~visible THEN AlphaDim ELSE AlphaFull]

\* Where a press can land on the final figure.
PressPlaces ==
    {<<"outside">>, <<"blank">>} \cup {<<"text", k>> : k \in 1..Len(legend)}

\* A button_press_event delivered by the event loop of plt.show().
PressEvent(where) ==
    /\ pc = "show" /\ prog = "main.py"
    /\ "button_press_event" \in fig.connected
    /\ LET st == on_press(SigmaViewState, where)
       IN  /\ lines' = st.lines
           /\ legend' = st.legend
           /\ summary' = st.summary
           /\ axhline' = st.axhline
    /\ last_pick' = where
    /\ before' = lines
    /\ UNCHANGED <<prog, pc, data_vars, exc, fig, vertical_lines, visibility,
                   legend_items, tooltip, annotations, pointer, call, ret>>

(***************************************************************************)
(* The two scripts: extraction, construction, computation, plot, events.   *)
(***************************************************************************)
Next ==
    \/ ExtractData
    \/ Construct
    \/ ComputeStress
    \/ ComputeMargin
    \/ PlotFigure
    \/ PlotCurves
    \/ ConnectHandlers
    \/ PlotSummary
    \/ \E inside \in BOOLEAN : MotionEvent(inside)
    \/ \E artist \in 1..Len(legend_items) : PickEvent(artist)
    \/ PlotSigmaFindMin
    \/ PlotSigmaCurves
    \/ ConnectPress
    \/ \E where \in PressPlaces : PressEvent(where)
    \/ Close

Spec == Init /\ [][Next]_vars

(***************************************************************************)
(* One method applied to one object: the object is constructed from        *)
(* arguments drawn from bounded sets, then the method named by call.fn is  *)
(* applied and its result, or the exception it raised, is kept in ret.     *)
(***************************************************************************)
Dims == 0..MaxDim

\* Constructor arguments of r load cases and c sections.
PlainArgs(r, c, A, E, loads) ==
    [names |-> SubSeq(SectionLabels, 1, c), X |-> [j \in 1..c |-> Num(j - 1)],
     E |-> E, A |-> A, loads |-> loads, LC |-> LCNames(r)]

Twos(c) == [j \in 1..c |-> Num(2)]

Eights(r, c) == [shape |-> <<r, c>>, data |-> [i \in 1..r |-> [j \in 1..c |-> Num(8)]]]

\* calculate_stresses / calculate_sigma on loads of every shape and areas
\* of every length, zero and negative areas included.
StressCalls(r, c) ==
    \E k \in Dims :
    \E A \in [1..k -> {Num(0), Num(2), Num(-4)}] :
    \E d \in [1..r -> [1..c -> {Num(0), Num(8)}]] :
        /\ args = PlainArgs(r, c, A, Twos(k), [shape |-> <<r, c>>, data |-> d])
        /\ call = [fn |-> "stress"]

\* calculate_sigma on moduli of every length, zero and negative included.
ModulusCalls(r, c) ==
    \E k \in Dims :
    \E E \in [1..k -> {Num(0), Num(2), Num(-4)}] :
        /\ prog = "main.py"
        /\ args = PlainArgs(r, c, Twos(c), E, Eights(r, c))
        /\ call = [fn |-> "stress"]

\* calculate_ms / calculate_MS on stress matrices with and without zeros.
MarginCalls(r, c) ==
    \E crit \in {Num(0), Num(8), Num(500)} :
    \E d \in [1..r -> [1..c -> {Zero(1), Num(2)}]] :
        /\ args = PlainArgs(r, c, Twos(c), Twos(c), Eights(r, c))
        /\ call = [fn |-> "margin", sigma_cr |-> crit,
                   stresses |-> [shape |-> <<r, c>>, data |-> d]]

\* find_min_ms / find_min_MS on margin matrices of every shape.
FindMinCalls(r, c) ==
    \E S \in {{Num(2), Num(4), Num(5)}, {Num(2), Inf(1), NaN}} :
    \E d \in [1..r -> [1..c -> S]] :
        /\ args = PlainArgs(r, c, Twos(c), Twos(c), Eights(r, c))
        /\ call = [fn |-> "find_min", ms |-> [shape |-> <<r, c>>, data |-> d]]

\* An r x c matrix of the float64 8.0, kept bit for bit.
Eights64(r, c) ==
    [shape |-> <<r, c>>,
     data |-> [i \in 1..r |-> [j \in 1..c |-> ToF64(Num(8))]]]

\* The three computations in sequence, as the scripts chain them, on
\* datasets of one load case with positive areas, computed bit for bit.
EndToEndCalls(r, c) ==
    \E crit \in {Num(8), Num(500)} :
    \E A \in [1..c -> {Num(2), Num(3), Num(4)}] :
        /\ r = 1
        /\ args = PlainArgs(r, c, A, Twos(c), Eights64(r, c))
        /\ call = [fn |-> "end_to_end", sigma_cr |-> crit]

\* calculate_stresses / calculate_sigma computed bit for bit on positive
\* areas.
StressCalls64(r, c) ==
    \E A \in [1..c -> {Num(2), Num(3)}] :
        /\ args = PlainArgs(r, c, A, Twos(c), Eights64(r, c))
        /\ call = [fn |-> "stress"]

InitCall ==
    /\ prog \in {"Beam.py", "main.py"}
    /\ pc = "construct"
    /\ df = None
    /\ \E r \in Dims, c \in Dims :
          \/ StressCalls(r, c)
          \/ ModulusCalls(r, c)
          \/ MarginCalls(r, c)
          \/ FindMinCalls(r, c)
          \/ EndToEndCalls(r, c)
          \/ StressCalls64(r, c)
    /\ beam = None /\ stresses = None /\ ms = None
    /\ exc = "none"
    /\ NoView
    /\ ret = None

\* stresses = beam.calculate_stresses(); ms = beam.calculate_ms(sigma_cr,
\* stresses); then the find_min_ms of plot_stresses (in main.py:
\* calculate_sigma, calculate_MS, find_min_MS).  The first exception ends it.
EndToEnd(p, self, sigma_cr) ==
    LET s == IF p = "main.py" THEN calculate_sigma(self)
             ELSE calculate_stresses(self)
        m == IF p = "main.py" THEN calculate_MS(self, s.val, sigma_cr)
             ELSE calculate_ms(self, sigma_cr, s.val)
        r == IF p = "main.py" THEN find_min_MS(self, m.val)
             ELSE find_min_ms(self, m.val)
    IN  IF s.err # "none" THEN s
        ELSE IF r.err # "none" THEN r
        ELSE Ok([stress |-> s.val, margin |-> m.val, min |-> r.val])

\* The method call.fn names, of the Beam class of the module prog names.
Apply(p, self, c) ==
    CASE c.fn = "stress" ->
            IF p = "main.py" THEN calculate_sigma(self) ELSE calculate_stresses(self)
      [] c.fn = "margin" ->
            IF p = "main.py" THEN calculate_MS(self, c.stresses, c.sigma_cr)
            ELSE calculate_ms(self, c.sigma_cr, c.stresses)
      [] c.fn = "find_min" ->
            IF p = "main.py" THEN find_min_MS(self, c.ms) ELSE find_min_ms(self, c.ms)
      [] c.fn = "end_to_end" -> EndToEnd(p, self, c.sigma_cr)

CallMethod ==
    /\ pc = "call"
    /\ ret' = Apply(prog, beam, call)
    /\ pc' = "returned"
    /\ UNCHANGED <<prog, data_vars, exc, view_vars, call>>

NextCall == Construct \/ CallMethod

SpecCall == InitCall /\ [][NextCall]_vars

(***************************************************************************)
(* Properties of the interactive diagram of Beam.plot_stresses.            *)
(***************************************************************************)
\* The curves, legend and closure variables of plot_stresses exist.
StressesViewBuilt ==
    prog = "Beam.py" /\ pc \in {"connect", "summary", "show", "closed"}

\* C1: every load case starts visible, and in every state of the view the
\* curve and each vertical line of load case i are shown exactly when
\* visibility[i] is true, and its swatch and label are drawn with alpha 0.2
\* exactly when visibility[i] is false and with alpha 1.0 otherwise.
C1_VisibilityPropagated ==
    StressesViewBuilt =>
        /\ Len(lines) = Len(visibility)
        /\ Len(vertical_lines) = Len(visibility)
        /\ Len(legend_items) = Len(visibility)
        /\ last_pick = <<>> => \A i \in 1..Len(visibility) : visibility[i]
        /\ \A i \in 1..Len(visibility) :
              /\ lines[i] = visibility[i]
              /\ \A t \in 1..Len(vertical_lines[i]) :
                    vertical_lines[i][t] = visibility[i]
              /\ EffectiveAlpha(legend_items[i].patch_alpha)
                    = (IF visibility[i] THEN AlphaFull ELSE AlphaDim)
              /\ EffectiveAlpha(legend_items[i].text_alpha)
                    = (IF visibility[i] THEN AlphaFull ELSE AlphaDim)

\* After some clicks one load case with vertical lines is hidden, another
\* has been hidden and shown again, in the same view.
C1_Witness ==
    /\ StressesViewBuilt /\ pc = "show"
    /\ \E i, j \in 1..Len(visibility) :
          /\ ~visibility[i] /\ Len(vertical_lines[i]) > 0
          /\ visibility[j] /\ legend_items[j].patch_alpha = AlphaFull

\* C2: a click on the label of load case a leaves the visible flag of every
\* other load case unchanged, and when the click before it was on the same
\* label, visibility is again what it was before the two clicks.
C2_DoubleClickRestores ==
    [][\A a \in 1..Len(legend_items) :
          PickEvent(a) =>
             /\ \A j \in 1..Len(visibility) :
                   j # a => visibility'[j] = visibility[j]
             /\ visibility'[a] = ~visibility[a]
             /\ last_pick = <<a>> => visibility' = before]_vars

\* Load case 1 has been clicked at least twice and no other load case ever:
\* the last two clicks were both on label 1, and load case 2 is as it began.
C2_Witness ==
    /\ StressesViewBuilt /\ pc = "show"
    /\ Len(visibility) >= 2
    /\ last_pick = <<1>> /\ ~before[1] /\ visibility[1]
    /\ legend_items[1].patch_alpha = AlphaFull
    /\ legend_items[2].patch_alpha = NoAlpha /\ visibility[2]

\* The minimum-margin summary computed from the full matrices: by
\* find_min_ms(sigma_cr / stresses) in plot_stresses, by find_min_MS(MS) in
\* plot_sigma.
FullSummary ==
    IF prog = "main.py" THEN SigmaSummary(beam, ms).val
    ELSE MinSummary(beam, stresses, SigmaCr(prog)).val

\* C3: while the view is shown, no event (legend click, hover, button
\* press) changes the minimum-margin summary or the matrices it was computed
\* from, and the summary is the one computed from the full stress matrix,
\* whichever load cases are hidden.
C3_SummaryUnaffected ==
    [][pc = "show" =>
          /\ summary = FullSummary
          /\ summary' = summary
          /\ stresses' = stresses /\ ms' = ms /\ beam' = beam]_vars

\* The pointer has moved, the only load case that attains the minimum is
\* hidden while another is shown, and the summary still names the hidden one.
C3_Witness ==
    /\ prog = "Beam.py" /\ pc = "show" /\ pointer # "none"
    /\ \E i, j \in 1..Len(visibility) :
          /\ ~visibility[i] /\ visibility[j]
          /\ \A q \in 1..Len(summary.cases) :
                summary.cases[q][2] = legend_items[i].label
    /\ summary = FullSummary

\* C4: after every motion event the help annotation is visible exactly when
\* that event was inside the legend axes (no annotation at all is visible
\* when it was outside).
C4_TooltipFollowsPointer ==
    (prog = "Beam.py" /\ pointer # "none") =>
        /\ (tooltip # NoTooltip /\ annotations[tooltip]) <=> (pointer = "inside")
        /\ (\E k \in 1..Len(annotations) : annotations[k]) <=> (pointer = "inside")

\* The pointer entered the legend, left it, entered again and left again.
C4_Witness ==
    /\ prog = "Beam.py" /\ pc = "show"
    /\ pointer = "outside" /\ Len(annotations) = 2 /\ tooltip = 2
    /\ ~annotations[1] /\ ~annotations[2]

(***************************************************************************)
(* Properties of the methods, each applied to one object.                  *)
(***************************************************************************)
\* The 1-based (row, column) positions of a 2-D array.
Cells(m) == (1..m.shape[1]) \X (1..m.shape[2])

\* find_min has returned or raised on a matrix that has elements, all of
\* them numbers (finite or infinite).
FindMinOnNumbers ==
    /\ pc = "returned" /\ call.fn = "find_min"
    /\ Size(call.ms) > 0
    /\ \A p \in Cells(call.ms) : ~IsNaN(call.ms.data[p[1]][p[2]])

C6_AllTiedPairsReported ==
    (FindMinOnNumbers /\ prog = "main.py") =>
        /\ ret.err = "none"
        /\ \A p \in Cells(call.ms) :
              Equal(call.ms.data[p[1]][p[2]], ret.val[1]) =>
                 /\ ret.val[2] = beam.section.X[p[2]]
                 /\ ret.val[3] = beam.section.LC[p[1]]

\* The dataset a constructed Beam holds (beam_utils.Beam holds a Section).
Dataset ==
    IF prog = "main.py"
    THEN [names |-> beam.section.CS, A |-> beam.section.A,
          loads |-> beam.section.loads, LC |-> beam.section.LC]
    ELSE [names |-> beam.section_names, A |-> beam.A,
          loads |-> beam.loads, LC |-> beam.LC_names]

\* C7: every constructed Beam has as many load-case names as rows of loads,
\* and as many section names and areas as columns of loads.
C7_ShapeInvariant ==
    beam # None =>
        /\ Len(Dataset.LC) = Dataset.loads.shape[1]
        /\ Len(Dataset.names) = Dataset.loads.shape[2]
        /\ Len(Dataset.A) = Dataset.loads.shape[2]

NotPositive(x) == IsNaN(x) \/ IsZero(x) \/ x.s = -1

\* C8: computing stress with an area (or a modulus) that is not strictly
\* positive fails with InvalidInputError.
C8_NonPositiveAreaRejected ==
    (/\ pc = "returned" /\ call.fn = "stress"
     /\ \/ \E j \in 1..Len(Dataset.A) : NotPositive(Dataset.A[j])
        \/ prog = "main.py"
           /\ \E j \in 1..Len(beam.section.E) : NotPositive(beam.section.E[j]))
        => ret.err = "InvalidInputError"

\* C9: calculate_ms on a stress matrix that contains a zero fails with
\* InvalidInputError.
C9_ZeroStressRejected ==
    (/\ pc = "returned" /\ call.fn = "margin" /\ prog = "Beam.py"
     /\ \E p \in Cells(call.stresses) : IsZero(call.stresses.data[p[1]][p[2]]))
        => ret.err = "InvalidInputError"

\* find_min_ms / find_min_MS has returned or raised on an empty matrix.
FindMinOnEmpty ==
    pc = "returned" /\ call.fn = "find_min" /\ Size(call.ms) = 0

ViewConstructed ==
    \/ fig.created \/ fig.connected # {}
    \/ lines # <<>> \/ legend_items # <<>> \/ legend # <<>> \/ axhline

\* C11: the stress matrix, the margin matrix and the minimum-margin result
\* are all computed before any part of the view is constructed, and a script
\* that failed before its minimum-margin result was computed has constructed
\* no part of the view.
C11_ComputationBeforeView ==
    /\ ViewConstructed => (stresses # None /\ ms # None /\ summary # None)
    /\ (pc = "failed" /\ summary = None) => ~ViewConstructed

\* plot_stresses failed in find_min_ms after the figure, the curves and both
\* handlers were in place.
C11_FailedWithView ==
    /\ prog = "Beam.py" /\ pc = "failed" /\ summary = None
    /\ fig.created /\ fig.connected # {} /\ Len(lines) > 0


(***************************************************************************)
(* Properties of the chained computation.                                  *)
(***************************************************************************)
\* Two matrices of the same shape whose elements are equal as numbers.
SameMatrix(a, b) ==
    /\ a.shape = b.shape
    /\ \A p \in Cells(a) : Equal(a.data[p[1]][p[2]], b.data[p[1]][p[2]])

\* A 1 x 2 matrix.
Row2(x, y) == [shape |-> <<1, 2>>, data |-> << <<x, y>> >>]

\* The chained computation of Beam.py has ended on the dataset
\* names = [A-A, B-B], x = [0, 1], area = [2, 4], loads = [[8, 8]],
\* load cases = [LC1] with the critical value 8.
C12_Example ==
    /\ pc = "returned" /\ call.fn = "end_to_end" /\ prog = "Beam.py"
    /\ call.sigma_cr = Num(8)
    /\ beam = Beam(<<"A-A", "B-B">>, <<Num(0), Num(1)>>, <<Num(2), Num(4)>>,
                   Eights64(1, 2), <<"LC1">>)

\* C12 as stated: on that dataset the stress matrix is [[4, 2]], the margin
\* matrix [[2, 4]] and the minimum result the one entry (2, A-A, LC1).
C12_EndToEndAsStated ==
    C12_Example =>
        /\ ret.err = "none"
        /\ SameMatrix(ret.val.stress, Row2(Num(4), Num(2)))
        /\ SameMatrix(ret.val.margin, Row2(Num(2), Num(4)))
        /\ Len(ret.val.min) = 1
        /\ Equal(ret.val.min[1][1], Num(2))
        /\ ret.val.min[1][2] = "A-A" /\ ret.val.min[1][3] = "LC1"

\* C12 as the code has it: calculate_stresses divides by 1e6, so the stress
\* matrix is [[4e-6, 2e-6]], the margin matrix [[2e6, 4e6]] and the minimum
\* result the one entry (2e6, A-A, LC1).
C12_EndToEndScaled ==
    C12_Example =>
        /\ ret.err = "none"
        /\ SameMatrix(ret.val.stress, Row2(ToF64(Fin(1, 4, 1, -6)),
                                            ToF64(Fin(1, 2, 1, -6))))
        /\ SameMatrix(ret.val.margin, Row2(Fin(1, 2, 1, 6), Fin(1, 4, 1, 6)))
        /\ Len(ret.val.min) = 1
        /\ Equal(ret.val.min[1][1], Fin(1, 2, 1, 6))
        /\ ret.val.min[1][2] = "A-A" /\ ret.val.min[1][3] = "LC1"

\* The chained computation has returned its three results on that dataset.
C12_Witness ==
    /\ C12_Example /\ ret.err = "none"
    /\ ret.val.stress.shape = <<1, 2>> /\ Len(ret.val.min) = 1


(***************************************************************************)
(* Properties of the extraction from the sheet.                            *)
(***************************************************************************)
\* The scan of column 0 has run and no row matched the load-case marker.
ScannedWithoutMarker == pc # "extract" /\ FilteredIndices(df) = {}

\* Neither constructor arguments, nor a Beam, nor a matrix, nor a summary,
\* nor any part of a view exists.
NothingProduced ==
    /\ args = None /\ beam = None /\ stresses = None /\ ms = None
    /\ summary = None /\ ~ViewConstructed

C16_HandlersAfterAssembly ==
    fig.connected # {} =>
        /\ axhline /\ summary # None
        /\ Len(lines) = stresses.shape[1]
        /\ pc \in {"show", "closed"}

\* C17: in plot_stresses a motion event changes no visible flag, curve,
\* vertical line or legend item, a legend click changes neither the help
\* annotation nor which annotation is tracked, and in every state of the
\* shown view a motion event and a click give the same view state in either
\* order.
C17_HandlersDisjoint ==
    /\ []((prog = "Beam.py" /\ pc = "show") =>
            \A inside \in BOOLEAN, a \in 1..Len(legend_items) :
               on_motion(PickHandler(ViewState, a), inside)
                  = PickHandler(on_motion(ViewState, inside), a))
    /\ [][/\ (\E inside \in BOOLEAN : MotionEvent(inside)) =>
                /\ visibility' = visibility /\ lines' = lines
                /\ vertical_lines' = vertical_lines
                /\ legend_items' = legend_items
          /\ (\E a \in 1..Len(legend_items) : PickEvent(a)) =>
                /\ annotations' = annotations /\ tooltip' = tooltip]_vars

\* Both kinds of event have been handled: the annotation is shown and a
\* load case is hidden.
C17_Witness ==
    /\ prog = "Beam.py" /\ pc = "show"
    /\ pointer = "inside" /\ tooltip # NoTooltip /\ annotations[tooltip]
    /\ last_pick # <<>> /\ \E i \in 1..Len(visibility) : ~visibility[i]

\* The figure of plot_sigma has its curves and its legend.
SigmaViewBuilt == prog = "main.py" /\ pc \in {"connect", "show", "closed"}

\* C18: in plot_sigma a press on a legend text toggles exactly the curve
\* that has this label, a press anywhere else changes no curve, and the
\* legend text of a curve is gray and its handle has alpha 0.2 exactly when
\* the curve is hidden (black, alpha 1.0 otherwise).
C18_PressTogglesOneCurve ==
    /\ [](SigmaViewBuilt =>
            \A i \in 1..Len(lines) :
               /\ legend[i].color = (IF lines[i] THEN "black" ELSE "gray")
               /\ EffectiveAlpha(legend[i].handle_alpha)
                     = (IF lines[i] THEN AlphaFull ELSE AlphaDim))
    /\ [][\A where \in PressPlaces :
             PressEvent(where) =>
                /\ Len(lines') = Len(lines)
                /\ \A i \in 1..Len(lines) :
                      lines'[i] =
                         (IF where[1] = "text"
                             /\ legend[where[2]].label = beam.section.LC[i]
                          THEN ~lines[i] ELSE lines[i])]_vars

\* The first curve is hidden, the second has been hidden and shown again,
\* and the last press was on the legend text of the critical line.
C18_Witness ==
    /\ SigmaViewBuilt /\ pc = "show" /\ Len(lines) >= 2
    /\ ~lines[1] /\ legend[1].color = "gray"
    /\ lines[2] /\ legend[2].handle_alpha = AlphaFull
    /\ last_pick = <<"text", Len(lines) + 1>>

\* C19: once drawn, the critical line is visible in every state of both
\* views, and in plot_sigma its legend entry keeps its colour and alpha.
C19_ReferenceLineFixed ==
    (pc \in {"connect", "summary", "show", "closed"}) =>
        /\ axhline
        /\ prog = "main.py" =>
              legend[Len(lines) + 1] =
                 [label |-> CriticalLabel, color |-> "black",
                  handle_color |-> "own", handle_alpha |-> NoAlpha]

\* In plot_sigma the legend text of the critical line has just been pressed
\* while a curve is hidden.
C19_Witness ==
    /\ SigmaViewBuilt /\ pc = "show"
    /\ last_pick = <<"text", Len(lines) + 1>>
    /\ \E i \in 1..Len(lines) : ~lines[i]
    /\ axhline

\* C20: in plot_stresses at most one help annotation is visible, and it is
\* the tracked one; a motion event never removes an annotation, creates at
\* most one, creates it only when every earlier annotation is invisible, and
\* creates one on every entry into the legend axes.
C20_OneAnnotationVisible ==
    /\ [](prog = "Beam.py" =>
            /\ Cardinality({k \in 1..Len(annotations) : annotations[k]}) <= 1
            /\ \A k \in 1..Len(annotations) : annotations[k] => k = tooltip)
    /\ [][\A inside \in BOOLEAN :
             MotionEvent(inside) =>
                /\ Len(annotations') >= Len(annotations)
                /\ Len(annotations') > Len(annotations) =>
                      /\ inside
                      /\ Len(annotations') = Len(annotations) + 1
                      /\ tooltip = NoTooltip \/ ~annotations[tooltip]
                      /\ \A k \in 1..Len(annotations) :
                            ~annotations[k] /\ ~annotations'[k]
                /\ (inside /\ pointer # "inside") =>
                      Len(annotations') = Len(annotations) + 1]_vars

\* The pointer has entered the legend axes for the second time: the first
\* annotation is invisible, the second is the visible, tracked one.
C20_Witness ==
    /\ prog = "Beam.py" /\ pc = "show" /\ pointer = "inside"
    /\ Len(annotations) = 2 /\ ~annotations[1] /\ annotations[2]
    /\ tooltip = 2


(***************************************************************************)
(* Algebraic properties of the stress and margin computations.             *)
(***************************************************************************)
\* |xs - ys| * 2^52 <= ys, for two natural numbers.
CloseNaturals(xs, ys) ==
    BigCmp(ShiftLeft(IF BigCmp(xs, ys) >= 0 THEN BigSub(xs, ys)
                     ELSE BigSub(ys, xs), MantissaBits - 1), ys) <= 0

\* |x - y| * 2^52 <= |y|, for two finite nonzero float64 of one sign; lo is
\* the smaller of their exponents.
CloseF64(x, y, lo) ==
    /\ x.s = y.s
    /\ x.e - y.e \in -2..2
    /\ CloseNaturals(ShiftLeft(x.m, x.e - lo), ShiftLeft(y.m, y.e - lo))

\* Whether p is within one part in 2^52 of c:  |p - c| * 2^52 <= |c|.
WithinRounding(p, c) ==
    IF IsNaN(p) \/ IsNaN(c) \/ p.k = "inf" \/ c.k = "inf" THEN FALSE
    ELSE IF IsZero(p) \/ IsZero(c) THEN IsZero(p) /\ IsZero(c)
    ELSE CloseF64(ToF64(p), ToF64(c),
                  IF ToF64(p).e < ToF64(c).e THEN ToF64(p).e ELSE ToF64(c).e)

\* The chained computation of Beam.py (margin = critical / stress) has
\* returned its stress and margin matrices for positive areas.
MarginOfStress ==
    /\ pc = "returned" /\ call.fn = "end_to_end" /\ prog = "Beam.py"
    /\ ret.err = "none"
    /\ \A j \in 1..Len(beam.A) : ~NotPositive(beam.A[j])

\* C14 as stated: margin * stress == critical for every element whose
\* stress is not zero.
C14_ProductIsCritical ==
    MarginOfStress =>
        \A p \in Cells(ret.val.stress) :
           LET stress == ret.val.stress.data[p[1]][p[2]]
               margin == ret.val.margin.data[p[1]][p[2]]
           IN  ~IsZero(stress) => Equal(Multiply(margin, stress), call.sigma_cr)

\* C14 as the code has it: the margin is the float64 quotient critical /
\* stress, and for every element whose stress is not zero the float64
\* product margin * stress is within one part in 2^52 of critical.
C14_ProductWithinRounding ==
    MarginOfStress =>
        \A p \in Cells(ret.val.stress) :
           LET stress == ret.val.stress.data[p[1]][p[2]]
               margin == ret.val.margin.data[p[1]][p[2]]
           IN  ~IsZero(stress) =>
                  /\ margin = TrueDivide(call.sigma_cr, stress)
                  /\ WithinRounding(Multiply(margin, stress), call.sigma_cr)

\* Load 8 on area 3 with the critical value 500: the product is not 500.
C14_Witness ==
    /\ MarginOfStress /\ call.sigma_cr = Num(500)
    /\ \E p \in Cells(ret.val.stress) :
          /\ beam.A[p[2]] = Num(3)
          /\ ~Equal(Multiply(ret.val.margin.data[p[1]][p[2]],
                             ret.val.stress.data[p[1]][p[2]]), call.sigma_cr)

\* 2 * x, element by element.
Doubled(m) ==
    LET Twice(x) == Multiply(Num(2), x)
    IN  MapArray(m, Twice)

\* The Beam object with its loads doubled.
BeamWithDoubledLoads ==
    IF prog = "main.py"
    THEN [beam EXCEPT !.section.loads = Doubled(@)]
    ELSE [beam EXCEPT !.loads = Doubled(@)]

\* The stress computation has returned or raised on a dataset of the shape
\* the data model asks for (one area, and one modulus, per column of loads),
\* with strictly positive areas and moduli.
StressOfPositiveAreas ==
    /\ pc = "returned" /\ call.fn = "stress"
    /\ Len(Dataset.A) = Dataset.loads.shape[2]
    /\ \A j \in 1..Len(Dataset.A) : ~NotPositive(Dataset.A[j])
    /\ prog = "main.py" =>
          /\ Len(beam.section.E) = Dataset.loads.shape[2]
          /\ \A j \in 1..Len(beam.section.E) : ~NotPositive(beam.section.E[j])

\* C15: for strictly positive areas (and moduli), the stress matrix has the
\* shape of loads, and the stress matrix of 2 * loads is element by element
\* twice the stress matrix of loads, in both implementations.
C15_StressLinearInLoads ==
    StressOfPositiveAreas =>
        LET twice == Apply(prog, BeamWithDoubledLoads, call)
        IN  /\ ret.err = "none" /\ twice.err = "none"
            /\ ret.val.shape = Dataset.loads.shape
            /\ SameMatrix(twice.val, Doubled(ret.val))

\* Stresses of two load cases on areas 2 and 3 were computed bit for bit;
\* the division by 3 is not exact.
C15_Witness ==
    /\ StressOfPositiveAreas /\ ret.err = "none"
    /\ Dataset.loads = Eights64(2, 2)
    /\ Dataset.A = <<Num(2), Num(3)>>
    /\ ret.val.data[1][2].k = "f64"

(***************************************************************************)
(* Properties of the index arithmetic of find_min_MS.                      *)
(***************************************************************************)
\* find_min_MS of beam_utils.py has returned or raised on a margin matrix
\* that has elements, with one coordinate per column and one load-case name
\* per row.
FindMinMSOnElements ==
    /\ pc = "returned" /\ call.fn = "find_min" /\ prog = "main.py"
    /\ Size(call.ms) > 0
    /\ Len(beam.section.X) = call.ms.shape[2]
    /\ Len(beam.section.LC) = call.ms.shape[1]

\* Whether the element x is the value v that np.min returned: equal to it,
\* or nan like it (np.min is nan as soon as one element is nan).
Attains(x, v) == IF IsNaN(v) THEN IsNaN(x) ELSE Equal(x, v)

\* The 0-based cell (LC_index, CS_index) whose load-case name and coordinate
\* find_min_MS returned: the coordinates and the names are distinct, so the
\* result determines the cell.
ReturnedCells ==
    {p \in (0..(call.ms.shape[1] - 1)) \X (0..(call.ms.shape[2] - 1)) :
        /\ beam.section.LC[p[1] + 1] = ret.val[3]
        /\ beam.section.X[p[2] + 1] = ret.val[2]}

\* C21: on every margin matrix of rows x cols elements that is not empty,
\* find_min_MS returns, and the cell (LC_index, CS_index) = (k // cols,
\* k % cols) it reads the load-case name and the coordinate from lies within
\* the matrix, holds the minimum np.min returned, no element of the matrix
\* is less than it, and no cell before it in row-major order holds that
\* minimum.
C21_FlatIndexSplit ==
    FindMinMSOnElements =>
        LET m == call.ms
            cols == m.shape[2]
            at(p) == m.data[p[1] + 1][p[2] + 1]
        IN  /\ ret.err = "none"
            /\ Cardinality(ReturnedCells) = 1
            /\ \A c \in ReturnedCells :
                  /\ 0 <= c[1] /\ c[1] < m.shape[1]
                  /\ 0 <= c[2] /\ c[2] < cols
                  /\ Attains(at(c), ret.val[1])
                  /\ \A p \in Cells(m) : ~Less(m.data[p[1]][p[2]], ret.val[1])
                  /\ \A p \in (0..(m.shape[1] - 1)) \X (0..(cols - 1)) :
                        p[1] * cols + p[2] < c[1] * cols + c[2]
                           => ~Attains(at(p), ret.val[1])

\* find_min_MS was applied to [[4, 5], [5, 2]]: the minimum is the last
\* element, flattened index 3, read back as row 1 (LC2), column 1 (X = 1).
C21_Witness ==
    /\ FindMinMSOnElements
    /\ call.ms.data = << <<Num(4), Num(5)>>, <<Num(5), Num(2)>> >>
    /\ ret = Ok(<<Num(2), Num(1), "LC2">>)


====
